---- MODULE Spec2Model ----
(***************************************************************************)
(* Delivery management system: the route planning engine.                  *)
(*                                                                         *)
(* Two variants live in the repository and are modelled side by side:      *)
(*   - DMS_layered.py : DeliverySystem + NearestNeighborStrategy           *)
(*                      (structured addresses, Manhattan distance)         *)
(*   - src/system.py  : DeliverySystem with create_route / optimize_route  *)
(*                      / auto_create_routes (address strings, Euclidean)  *)
(* Dictionaries are modelled as sequences in insertion order, which is the *)
(* order Python iterates them in.  A route id "R<n>" of the layered        *)
(* variant is the number n, and None is 0.                                 *)
(***************************************************************************)
EXTENDS Integers, Sequences, FiniteSets, TLC

VARIABLES
    packages,   \* DMS_layered DeliverySystem.packages  (insertion order)
    trucks,     \* DMS_layered DeliverySystem.trucks    (insertion order)
    drivers,    \* DMS_layered DeliverySystem.drivers   (insertion order)
    routes,     \* DMS_layered DeliverySystem.routes    (insertion order)
    crashed,    \* an exception left the handler unhandled: the process ended
    packages_csv, \* DMS_layered: the file packages.csv of the working directory
    last,       \* history: the last operation, its arguments and the state it started in
    sys         \* src/system.py DeliverySystem: its packages, its routes, its data file

lvars == <<packages, trucks, drivers, routes, crashed, packages_csv, last>>

svars == <<sys>>

vars == <<lvars, svars>>

(***************************************************************************)
(* Bounds of the model.                                                    *)
(***************************************************************************)
MaxPackages == 2
MaxTrucks == 2
MaxDrivers == 2
MaxRows == 1

Range(s) == {s[i] : i \in 1..Len(s)}

SeqSum(s) == LET RECURSIVE Go(_)
                 Go(i) == IF i = 0 THEN 0 ELSE s[i] + Go(i - 1)
             IN Go(Len(s))

Abs(n) == IF n < 0 THEN -n ELSE n

\* The weights a row of a data file can carry.
MaxWeight == 600

\* writer.writerow turns the weight, a float of whole value here, into its text
\* ("60.0"); float(text) reads the text back as a number.
weight_text(weight) == ToString(weight) \o ".0"
float_of(text) == CHOOSE w \in 0..MaxWeight : weight_text(w) = text

(***************************************************************************)
(* Data layer of DMS_layered.py                                            *)
(***************************************************************************)
Address(label, x, y) == [label |-> label, x |-> x, y |-> y]

\* The delivery locations packages are entered with: the depot's own position and
\* two places equally far from it.
Depot == Address("depot", 0, 0)
North == Address("north", 0, 20)
East == Address("east", 10, 10)

\* The capacity seed_sample_data gives every truck, and the weights packages are
\* entered with: half a truck, a whole truck, more than any truck takes.
SeededCapacity == 500
HalfLoad == SeededCapacity \div 2
FullLoad == SeededCapacity
OverLoad == SeededCapacity + 100

NoRoute == 0
NoProof == "None"

Package(package_id, label_address, status, weight) ==
    [package_id |-> package_id, label_address |-> label_address, status |-> status,
     weight |-> weight, assigned_route_id |-> NoRoute, proof_of_delivery |-> NoProof]

\* Package.update_status: "if proof:" stores the proof only when it is neither None
\* nor the empty string.
update_status(pkg, new_status, proof) ==
    [pkg EXCEPT !.status = new_status,
                !.proof_of_delivery = IF proof = NoProof \/ proof = "" THEN @ ELSE proof]

scan_package(pkg) ==
    IF pkg.status = "Created" THEN [pkg EXCEPT !.status = "InTransit"] ELSE pkg

Truck(capacity) ==
    [capacity |-> capacity, current_load |-> 0,
     status |-> "Available", current_route_id |-> NoRoute]

\* Mutant: the load alone is compared, the additional weight is forgotten.
check_capacity_ignoring_weight(truck, additional_weight) ==
    truck.current_load <= truck.capacity

check_capacity(truck, additional_weight) ==
    truck.current_load + additional_weight <= truck.capacity

assign_route(truck, route_id, load) ==
    [truck EXCEPT !.current_route_id = route_id, !.current_load = load, !.status = "InUse"]

distance(x1, y1, x2, y2) == Abs(x1 - x2) + Abs(y1 - y2)

Driver == [current_route_id |-> NoRoute]

Route(route_id, truck_id, driver_id) ==
    [route_id |-> route_id, truck_id |-> truck_id, driver_id |-> driver_id,
     stops |-> <<>>, package_ids |-> <<>>, total_distance |-> 0,
     optimized |-> FALSE, status |-> "Planned"]

\* Route.add_package, the route's side: the package id is appended, the stop only when new.
add_package_to_route(route, pkg) ==
    [route EXCEPT !.package_ids = Append(@, pkg.package_id),
                  !.stops = IF pkg.label_address \in Range(@) THEN @
                            ELSE Append(@, pkg.label_address)]

\* Position of the route with this id in the dict, 0 when the key is absent.
RouteIndex(rs, route_id) ==
    IF \E i \in 1..Len(rs) : rs[i].route_id = route_id
    THEN CHOOSE i \in 1..Len(rs) : rs[i].route_id = route_id
    ELSE 0

(***************************************************************************)
(* NearestNeighborStrategy.compute_routes                                  *)
(***************************************************************************)
\* Mutant: when the scan is back at start_idx the truck it stands on is taken anyway.
RECURSIVE scan_trucks_taking_last(_, _, _, _)
scan_trucks_taking_last(truck_list, truck_index, start_idx, weight) ==
    IF check_capacity(truck_list[truck_index + 1], weight)
    THEN [assigned |-> TRUE, truck_index |-> truck_index]
    ELSE LET next == (truck_index + 1) % Len(truck_list)
         IN IF next = start_idx
            THEN [assigned |-> TRUE, truck_index |-> next]
            ELSE scan_trucks_taking_last(truck_list, next, start_idx, weight)

\* The inner while loop: scan the trucks from truck_index until one accepts the
\* weight or the scan is back at start_idx.  The index is 0-based as in the code.
RECURSIVE scan_trucks(_, _, _, _)
scan_trucks(truck_list, truck_index, start_idx, weight) ==
    IF check_capacity(truck_list[truck_index + 1], weight)
    THEN [assigned |-> TRUE, truck_index |-> truck_index]
    ELSE LET next == (truck_index + 1) % Len(truck_list)
         IN IF next = start_idx
            THEN [assigned |-> FALSE, truck_index |-> next]
            ELSE scan_trucks(truck_list, next, start_idx, weight)

\* Mutant: the package that fits nowhere is skipped without being marked.
mark_exception_skipped(pkg) == pkg

\* The scan came back to start_idx: the package is marked and nothing else is touched.
mark_exception(pkg) == [pkg EXCEPT !.status = "Exception"]

\* One iteration of the assignment loop, for the package at position i of the dict.
\* st carries the objects the loop mutates and its local cursors; KeyError is set
\* when routes[route_id] is looked up with a key the local mapping does not hold.
assign_package(st, i) ==
    LET pkg  == st.packages[i]
        scan == scan_trucks(st.trucks, st.truck_index, st.truck_index, pkg.weight)
    IN IF ~scan.assigned
       THEN [st EXCEPT !.packages[i] = mark_exception(pkg),
                       !.truck_index = scan.truck_index]
       ELSE
       LET t        == scan.truck_index + 1
           truck    == st.trucks[t]
           d        == st.driver_index + 1
           fresh    == truck.current_route_id = NoRoute
           route_id == IF fresh THEN st.route_counter ELSE truck.current_route_id
           trucks1  == IF fresh
                       THEN [st.trucks EXCEPT ![t] = assign_route(truck, route_id, 0)]
                       ELSE st.trucks
           drivers1 == IF fresh
                       THEN [st.drivers EXCEPT ![d].current_route_id = route_id]
                       ELSE st.drivers
           routes1  == IF fresh
                       THEN Append(st.routes, Route(route_id, t, d))
                       ELSE st.routes
           r        == RouteIndex(routes1, route_id)
       IN IF r = 0
          THEN [st EXCEPT !.KeyError = TRUE, !.truck_index = scan.truck_index]
          ELSE [st EXCEPT
                  !.packages[i].assigned_route_id = route_id,
                  !.trucks = [trucks1 EXCEPT ![t].current_load = @ + pkg.weight],
                  !.drivers = drivers1,
                  !.routes = [routes1 EXCEPT ![r] = add_package_to_route(@, pkg)],
                  !.route_counter = IF fresh THEN @ + 1 ELSE @,
                  !.driver_index = (st.driver_index + 1) % Len(st.drivers),
                  !.truck_index = (scan.truck_index + 1) % Len(st.trucks)]

\* The first for loop, over the packages that were unassigned on entry (the list is
\* built before the loop), in dict order; it stops at the first KeyError.
RECURSIVE assign_loop(_, _, _)
assign_loop(st, unassigned, i) ==
    IF i > Len(st.packages) \/ st.KeyError THEN st
    ELSE IF i \in unassigned
         THEN assign_loop(assign_package(st, i), unassigned, i + 1)
         ELSE assign_loop(st, unassigned, i + 1)

\* Mutant: the current position is never moved, so every stop is chosen by its
\* distance from the depot.
nearest_index_from_depot(unvisited, cx, cy) ==
    CHOOSE i \in 1..Len(unvisited) :
        /\ \A j \in 1..Len(unvisited) :
              distance(0, 0, unvisited[i].x, unvisited[i].y)
                 <= distance(0, 0, unvisited[j].x, unvisited[j].y)
        /\ \A j \in 1..(i - 1) :
              distance(0, 0, unvisited[j].x, unvisited[j].y)
                 > distance(0, 0, unvisited[i].x, unvisited[i].y)

\* Mutant: among equally near stops the last of the list is taken.
nearest_index_taking_last(unvisited, cx, cy) ==
    CHOOSE i \in 1..Len(unvisited) :
        /\ \A j \in 1..Len(unvisited) :
              distance(cx, cy, unvisited[i].x, unvisited[i].y)
                 <= distance(cx, cy, unvisited[j].x, unvisited[j].y)
        /\ \A j \in (i + 1)..Len(unvisited) :
              distance(cx, cy, unvisited[j].x, unvisited[j].y)
                 > distance(cx, cy, unvisited[i].x, unvisited[i].y)

\* min(unvisited, key=distance from (cx, cy)): the first stop of least distance.
nearest_index(unvisited, cx, cy) ==
    CHOOSE i \in 1..Len(unvisited) :
        /\ \A j \in 1..Len(unvisited) :
              distance(cx, cy, unvisited[i].x, unvisited[i].y)
                 <= distance(cx, cy, unvisited[j].x, unvisited[j].y)
        /\ \A j \in 1..(i - 1) :
              distance(cx, cy, unvisited[j].x, unvisited[j].y)
                 > distance(cx, cy, unvisited[i].x, unvisited[i].y)

\* list.remove(x): drop the first element equal to x.
remove_first(s, x) ==
    LET k == CHOOSE i \in 1..Len(s) : s[i] = x /\ \A j \in 1..(i - 1) : s[j] # x
    IN SubSeq(s, 1, k - 1) \o SubSeq(s, k + 1, Len(s))

\* The while loop of the second phase; the leg back to the depot is added at its end.
RECURSIVE nearest_neighbor(_, _, _, _, _)
nearest_neighbor(unvisited, ordered, cx, cy, total) ==
    IF unvisited = <<>>
    THEN [stops |-> ordered, total |-> total + distance(cx, cy, 0, 0)]
    ELSE LET nearest == unvisited[nearest_index(unvisited, cx, cy)]
             d == distance(cx, cy, nearest.x, nearest.y)
         IN nearest_neighbor(remove_first(unvisited, nearest), Append(ordered, nearest),
                             nearest.x, nearest.y, total + d)

\* Mutant: the leg from the last stop back to the depot is left out of the total.
optimize_open_tour(route) ==
    LET nn == nearest_neighbor(route.stops, <<>>, 0, 0, 0)
        n  == Len(nn.stops)
        back == IF n = 0 THEN 0 ELSE distance(nn.stops[n].x, nn.stops[n].y, 0, 0)
    IN [route EXCEPT !.stops = nn.stops, !.total_distance = nn.total - back,
                     !.optimized = TRUE]

\* The second for loop: every route of the local mapping is ordered and sealed.
optimize(route) ==
    LET nn == nearest_neighbor(route.stops, <<>>, 0, 0, 0)
    IN [route EXCEPT !.stops = nn.stops, !.total_distance = nn.total, !.optimized = TRUE]

\* The whole call on (packages, trucks, drivers): the objects as it leaves them and
\* either the returned mapping or the KeyError that ends it.
strategy_compute_routes(pk, tl, dl) ==
    LET st0 == [packages |-> pk, trucks |-> tl, drivers |-> dl, routes |-> <<>>,
                driver_index |-> 0, truck_index |-> 0, route_counter |-> 1,
                KeyError |-> FALSE]
        unassigned == {i \in 1..Len(pk) : pk[i].assigned_route_id = NoRoute}
    IN IF tl = <<>> \/ dl = <<>> THEN st0
       ELSE LET st1 == assign_loop(st0, unassigned, 1)
            IN IF st1.KeyError THEN st1
               ELSE [st1 EXCEPT !.routes = [r \in 1..Len(st1.routes) |-> optimize(st1.routes[r])]]

(***************************************************************************)
(* DeliverySystem of DMS_layered.py                                        *)
(***************************************************************************)
NoCall == [op |-> "none", packages |-> <<>>, trucks |-> <<>>, drivers |-> <<>>]

\* Position of the package with this id in the dict, 0 when the key is absent.
PackageIndex(pk, package_id) ==
    IF \E i \in 1..Len(pk) : pk[i].package_id = package_id
    THEN CHOOSE i \in 1..Len(pk) : pk[i].package_id = package_id
    ELSE 0

\* self.packages[pkg.package_id] = pkg: an existing key keeps its place in the dict.
dict_put(pk, pkg) ==
    LET i == PackageIndex(pk, pkg.package_id)
    IN IF i = 0 THEN Append(pk, pkg) ELSE [pk EXCEPT ![i] = pkg]

\* The coordinates a row of packages.csv can carry.
MaxCoordinate == 20

\* csv.DictWriter writes str(x) for an int and int(row["x"]) reads it back.
int_text(n) == ToString(n)
int_of(text) == CHOOSE n \in 0..MaxCoordinate : int_text(n) = text

\* "route_id": pkg.assigned_route_id or "" on the way out, row.get("route_id") or None
\* on the way in.
route_text(route_id) == IF route_id = NoRoute THEN "" ELSE "R" \o ToString(route_id)
route_of(text) ==
    IF text = "" THEN NoRoute ELSE CHOOSE n \in 1..MaxTrucks : route_text(n) = text

\* save_packages_to_csv: one row per package, in dict order; the proof of delivery
\* is not among the fields.
save_packages_to_csv(pk) ==
    [i \in 1..Len(pk) |->
        <<pk[i].package_id, pk[i].label_address.label, int_text(pk[i].label_address.x),
          int_text(pk[i].label_address.y), pk[i].status, weight_text(pk[i].weight),
          route_text(pk[i].assigned_route_id)>>]

\* EntityFactory.create_package_from_csv_row
create_package_from_csv_row(row) ==
    [Package(row[1], Address(row[2], int_of(row[3]), int_of(row[4])), row[5],
             float_of(row[6]))
        EXCEPT !.assigned_route_id = route_of(row[7])]

\* load_packages_from_csv: an empty dict when there is no file, else one package
\* per row.
NoFile == [exists |-> FALSE, rows |-> <<>>]

RECURSIVE load_rows(_)
load_rows(rows) ==
    IF rows = <<>> THEN <<>>
    ELSE dict_put(load_rows(SubSeq(rows, 1, Len(rows) - 1)),
                  create_package_from_csv_row(rows[Len(rows)]))

load_packages_from_csv(file) == IF file.exists THEN load_rows(file.rows) ELSE <<>>

\* The first launch in a directory without packages.csv: DeliverySystem() and
\* seed_sample_data(), as main() calls them, give trucks of one capacity, all unused,
\* no driver and no package.  The fleet of five is cut to at most MaxTrucks trucks.
Init ==
    /\ packages = <<>>
    /\ \E n \in 1..MaxTrucks : trucks = [i \in 1..n |-> Truck(SeededCapacity)]
    /\ drivers = <<>>
    /\ routes = <<>>
    /\ crashed = FALSE
    /\ packages_csv = NoFile
    /\ last = NoCall
    /\ sys = [packages |-> <<>>, routes |-> <<>>, file |-> <<>>]

\* manager_menu 1, DeliverySystem.add_package: the factory builds the package and
\* scans it; a stored id is overwritten.
AddPackage(package_id, address, weight) ==
    /\ ~crashed
    /\ packages' = dict_put(packages, scan_package(Package(package_id, address, "Created", weight)))
    /\ last' = NoCall
    /\ UNCHANGED <<trucks, drivers, routes, crashed, packages_csv, svars>>

\* manager_menu 3, DeliverySystem.compute_routes: the strategy mutates the packages,
\* trucks and drivers in place; self.routes is replaced only when the strategy returns.
ComputeRoutes ==
    /\ ~crashed
    /\ LET res == strategy_compute_routes(packages, trucks, drivers)
       IN /\ packages' = res.packages
          /\ trucks' = res.trucks
          /\ drivers' = res.drivers
          /\ routes' = IF res.KeyError THEN routes ELSE res.routes
          /\ crashed' = res.KeyError
    /\ last' = [op |-> "compute_routes", packages |-> packages, trucks |-> trucks,
                drivers |-> drivers]
    /\ UNCHANGED <<packages_csv, svars>>

\* manager_menu 5: packages.csv is written (routes.json too, which nothing reads).
\* The file is cut to MaxRows rows: larger dicts are not saved.
SavePackages ==
    /\ ~crashed
    /\ Len(packages) <= MaxRows
    /\ packages_csv' = [exists |-> TRUE, rows |-> save_packages_to_csv(packages)]
    /\ last' = NoCall
    /\ UNCHANGED <<packages, trucks, drivers, routes, crashed, svars>>

\* manager_menu 6: system.packages = load_packages_from_csv("packages.csv")
LoadPackages ==
    /\ ~crashed
    /\ packages' = load_packages_from_csv(packages_csv)
    /\ last' = NoCall
    /\ UNCHANGED <<trucks, drivers, routes, crashed, packages_csv, svars>>

\* manager_menu 7: system.drivers = load_drivers_from_csv("drivers.csv"), a file the
\* program never writes: n rows, none when the file is missing.  Every driver is a
\* new object without a route.
LoadDrivers(n) ==
    /\ ~crashed
    /\ drivers' = [i \in 1..n |-> Driver]
    /\ last' = NoCall
    /\ UNCHANGED <<packages, trucks, routes, crashed, packages_csv, svars>>

\* DeliverySystem.get_route_for_driver: position of the driver's route in
\* self.routes, 0 when the driver has none or the id is not a key.
get_route_for_driver(d) ==
    IF drivers[d].current_route_id = NoRoute THEN 0
    ELSE RouteIndex(routes, drivers[d].current_route_id)

\* driver_menu 2 for the logged-in driver d: Driver.confirm_start when a route is found.
ConfirmStart(d) ==
    /\ ~crashed
    /\ LET r == get_route_for_driver(d)
       IN /\ r # 0
          /\ routes' = [routes EXCEPT ![r].status = "InProgress"]
          /\ drivers' = [drivers EXCEPT ![d].current_route_id = routes[r].route_id]
    /\ last' = NoCall
    /\ UNCHANGED <<packages, trucks, crashed, packages_csv, svars>>

\* driver_menu 3 for the logged-in driver d: the packages of the route are listed
\* (system.packages[pid] raises KeyError for an id that is not stored), then the
\* idx-th is given the new status; the proof is read from the console when the
\* status is Delivered and is None otherwise.
UpdateDeliveryStatus(d, idx, new_status, proof) ==
    /\ ~crashed
    /\ LET r == get_route_for_driver(d)
       IN /\ r # 0
          /\ IF \E k \in 1..Len(routes[r].package_ids) :
                   PackageIndex(packages, routes[r].package_ids[k]) = 0
             THEN /\ crashed' = TRUE
                  /\ packages' = packages
                  /\ last' = [NoCall EXCEPT !.op = "update_delivery_status"]
             ELSE /\ idx \in 1..Len(routes[r].package_ids)
                  /\ crashed' = FALSE
                  /\ packages' =
                        [packages EXCEPT
                            ![PackageIndex(packages, routes[r].package_ids[idx])] =
                                update_status(@, new_status,
                                              IF new_status = "Delivered" THEN proof
                                              ELSE NoProof)]
                  /\ last' = NoCall
    /\ UNCHANGED <<trucks, drivers, routes, packages_csv, svars>>

\* The program is started again in the same directory, after Exit or after an
\* exception ended it: main() builds a new DeliverySystem and seeds the same fleet;
\* packages.csv is what the earlier session left.
Relaunch ==
    /\ packages' = <<>>
    /\ trucks' = [i \in 1..Len(trucks) |-> Truck(SeededCapacity)]
    /\ drivers' = <<>>
    /\ routes' = <<>>
    /\ crashed' = FALSE
    /\ last' = NoCall
    /\ UNCHANGED <<packages_csv, svars>>

\* The ids packages are entered with, the statuses a driver reports, the proof
\* texts typed for a delivery (Enter alone gives ""), and the numbers of rows
\* drivers.csv can have: any number, or at most one.
PackageIds == 1..MaxPackages
DeliveryStatuses == {"Delivered"}
Proofs == {"", "signed"}
DriverRows == 0..MaxDrivers
SingleDriverRows == {0, 1}

\* The operations of the two consoles, each open at any time, and a new launch of
\* the program.  Packages are entered for the addresses and with the weights given,
\* and drivers.csv has one of the given numbers of rows.
Operations(addresses, weights, driver_rows) ==
    \/ \E id \in PackageIds, a \in addresses, w \in weights : AddPackage(id, a, w)
    \/ ComputeRoutes
    \/ SavePackages
    \/ LoadPackages
    \/ \E n \in driver_rows : LoadDrivers(n)
    \/ \E d \in 1..Len(drivers) : ConfirmStart(d)
    \/ \E d \in 1..Len(drivers), idx \in 1..MaxPackages, st \in DeliveryStatuses,
          proof \in Proofs : UpdateDeliveryStatus(d, idx, st, proof)
    \/ Relaunch

\* Every operation is in each of the four specifications; they differ in the values
\* typed at the prompts.
\* Tours: two stops at different distances from the depot.
Next == Operations({Depot, East}, {HalfLoad}, SingleDriverRows)

Spec == Init /\ [][Next]_vars

\* Ties: two stops equally far from the depot.
TiesNext == Operations({North, East}, {HalfLoad}, SingleDriverRows)

SpecTies == Init /\ [][TiesNext]_vars

\* Loads: packages that fill half a truck or a whole one.
FleetNext == Operations({Depot}, {HalfLoad, FullLoad}, SingleDriverRows)

SpecFleet == Init /\ [][FleetNext]_vars

\* Cursors: packages no truck takes beside packages that fit, and drivers taking turns.
CursorsNext == Operations({Depot}, {HalfLoad, OverLoad}, DriverRows)

SpecCursors == Init /\ [][CursorsNext]_vars

(***************************************************************************)
(* src/models.py and src/system.py                                         *)
(*                                                                         *)
(* An address is the string the package was entered with.  Distances are   *)
(* Euclidean: two of them are compared by their squares, and a route's     *)
(* total_distance, a sum of square roots, is kept as the sequence of the   *)
(* squared lengths of the legs that were added to it, in the order added.  *)
(***************************************************************************)
None == "None"

\* str.split(',') followed by float() of the first two parts, for the address
\* strings of the model: the strings outside the table raise in float().
FloatCoords ==
    ("0,0" :> <<0, 0>>) @@ ("1,1" :> <<1, 1>>) @@ ("100,100" :> <<100, 100>>)
        @@ ("101,101" :> <<101, 101>>) @@ ("10, 10" :> <<10, 10>>) @@ ("1.0,1.0" :> <<1, 1>>)

\* str.split(','), then int() of the stripped first two parts: int() does not take
\* "1.0", so that string is outside this table.
IntCoords ==
    ("0,0" :> <<0, 0>>) @@ ("1,1" :> <<1, 1>>) @@ ("100,100" :> <<100, 100>>)
        @@ ("101,101" :> <<101, 101>>) @@ ("10, 10" :> <<10, 10>>)

SysPackage(package_id, label_address, weight) ==
    [package_id |-> package_id, label_address |-> label_address, weight |-> weight,
     status |-> "Created", assigned_route_id |-> None]

SysRoute(route_id) ==
    [route_id |-> route_id, stops |-> <<>>, total_distance |-> <<>>, optimized |-> FALSE]

add_stop(route, address) == [route EXCEPT !.stops = Append(@, address)]

\* Position of a key in a dict kept in insertion order, 0 when absent.
KeyIndex(dict, key, field) ==
    IF \E i \in 1..Len(dict) : dict[i][field] = key
    THEN CHOOSE i \in 1..Len(dict) : dict[i][field] = key
    ELSE 0

\* self.routes[route_id] = route: an existing key keeps its place.
put_route(rs, route) ==
    LET i == KeyIndex(rs, route.route_id, "route_id")
    IN IF i = 0 THEN Append(rs, route) ELSE [rs EXCEPT ![i] = route]

\* The loop of create_route over package_ids, from position n on.
RECURSIVE create_route_loop(_, _, _, _)
create_route_loop(pk, route, package_ids, n) ==
    IF n > Len(package_ids) THEN [packages |-> pk, route |-> route]
    ELSE LET i == KeyIndex(pk, package_ids[n], "package_id")
         IN IF i = 0 THEN create_route_loop(pk, route, package_ids, n + 1)
            ELSE create_route_loop(
                    [pk EXCEPT ![i].assigned_route_id = route.route_id,
                               ![i].status = "In Transit"],
                    add_stop(route, pk[i].label_address), package_ids, n + 1)

\* DeliverySystem.create_route
create_route(s, route_id, package_ids) ==
    LET res == create_route_loop(s.packages, SysRoute(route_id), package_ids, 1)
    IN [s EXCEPT !.packages = res.packages, !.routes = put_route(s.routes, res.route)]

\* The parse of one stop in optimize_route: its position, (0, 0) when it does not parse.
stop_position(stop) == IF stop \in DOMAIN IntCoords THEN IntCoords[stop] ELSE <<0, 0>>

\* The square of math.sqrt((x1 - x2)**2 + (y1 - y2)**2).
dist2(p, q) == (p[1] - q[1]) * (p[1] - q[1]) + (p[2] - q[2]) * (p[2] - q[2])

\* The for loop over pending with "if dist < min_dist": the first stop of least distance.
nearest_pending(pending, current_pos) ==
    CHOOSE i \in 1..Len(pending) :
        /\ \A j \in 1..Len(pending) :
              dist2(stop_position(pending[i]), current_pos)
                 <= dist2(stop_position(pending[j]), current_pos)
        /\ \A j \in 1..(i - 1) :
              dist2(stop_position(pending[j]), current_pos)
                 > dist2(stop_position(pending[i]), current_pos)

\* The while loop of optimize_route.
RECURSIVE optimize_loop(_, _, _, _)
optimize_loop(pending, optimized_stops, current_pos, total) ==
    IF pending = <<>> THEN [stops |-> optimized_stops, total |-> total]
    ELSE LET i == nearest_pending(pending, current_pos)
             pos == stop_position(pending[i])
         IN optimize_loop(SubSeq(pending, 1, i - 1) \o SubSeq(pending, i + 1, Len(pending)),
                          Append(optimized_stops, pending[i]), pos,
                          Append(total, dist2(pos, current_pos)))

\* DeliverySystem.optimize_route
optimize_route(s, route_id) ==
    LET r == KeyIndex(s.routes, route_id, "route_id")
    IN IF r = 0 THEN [sys |-> s, ret |-> FALSE]
       ELSE IF s.routes[r].stops = <<>> THEN [sys |-> s, ret |-> TRUE]
       ELSE LET res == optimize_loop(s.routes[r].stops, <<>>, <<0, 0>>,
                                     s.routes[r].total_distance)
            IN [sys |-> [s EXCEPT !.routes[r].stops = res.stops,
                                  !.routes[r].total_distance = res.total,
                                  !.routes[r].optimized = TRUE],
                ret |-> TRUE]

\* max_route_weight and the number of clustering rounds of auto_create_routes.
max_route_weight == 100
Rounds == 10

\* list.sort(key=weight, reverse=True): stable, heaviest first.
RECURSIVE sort_by_weight(_)
sort_by_weight(pool) ==
    IF pool = <<>> THEN <<>>
    ELSE LET rest == sort_by_weight(Tail(pool))
             p == Head(pool)
             \* p goes before the first element of rest that is strictly lighter or equal
             k == Cardinality({i \in 1..Len(rest) : rest[i].weight > p.weight})
         IN SubSeq(rest, 1, k) \o <<p>> \o SubSeq(rest, k + 1, Len(rest))

\* The position a package is clustered by: its parsed address, (0, 0) when float() raises.
package_position(p) ==
    IF p.label_address \in DOMAIN FloatCoords THEN FloatCoords[p.label_address] ELSE <<0, 0>>

\* A centroid is the mean of n positions, kept as their sums: (sx / n, sy / n).
seed_centroid(p) == [sx |-> package_position(p)[1], sy |-> package_position(p)[2], n |-> 1]

\* n * n times the squared distance from position pos to centroid c.
scaled_dist2(pos, c) ==
    (pos[1] * c.n - c.sx) * (pos[1] * c.n - c.sx) + (pos[2] * c.n - c.sy) * (pos[2] * c.n - c.sy)

\* dist(pos, a) <= dist(pos, b) for two centroids.
nearer_or_equal(pos, a, b) == scaled_dist2(pos, a) * b.n * b.n <= scaled_dist2(pos, b) * a.n * a.n

\* best_cluster that takes the first cluster with room, however far its centroid is.
best_cluster_first_with_room(pos, weight, centroids, cluster_weights) ==
    LET valid == {i \in 1..Len(centroids) : cluster_weights[i] + weight <= max_route_weight}
    IN IF valid = {} THEN 0
       ELSE CHOOSE i \in valid : \A j \in valid : i <= j

\* Mutant: best_cluster that takes the nearest cluster whatever weight it carries.
best_cluster_over_weight(pos, weight, centroids, cluster_weights) ==
    CHOOSE i \in 1..Len(centroids) :
        /\ \A j \in 1..Len(centroids) : nearer_or_equal(pos, centroids[i], centroids[j])
        /\ \A j \in 1..(i - 1) : ~nearer_or_equal(pos, centroids[j], centroids[i])

\* valid_clusters for a package of this weight, and best_i after the stable sort by
\* distance: the first of the nearest clusters that can still take the weight; 0 when none.
best_cluster(pos, weight, centroids, cluster_weights) ==
    LET valid == {i \in 1..Len(centroids) : cluster_weights[i] + weight <= max_route_weight}
    IN IF valid = {} THEN 0
       ELSE CHOOSE i \in valid :
               /\ \A j \in valid : nearer_or_equal(pos, centroids[i], centroids[j])
               /\ \A j \in valid : j < i => ~nearer_or_equal(pos, centroids[j], centroids[i])

\* The loop over the sorted pool within one round.
RECURSIVE place_packages(_, _, _, _, _)
place_packages(pool, n, centroids, clusters, cluster_weights) ==
    IF n > Len(pool) THEN [clusters |-> clusters, cluster_weights |-> cluster_weights]
    ELSE LET p == pool[n]
             b == best_cluster(package_position(p), p.weight, centroids, cluster_weights)
         IN IF b = 0 THEN place_packages(pool, n + 1, centroids, clusters, cluster_weights)
            ELSE place_packages(pool, n + 1, centroids,
                                [clusters EXCEPT ![b] = Append(@, p)],
                                [cluster_weights EXCEPT ![b] = @ + p.weight])

\* The mean position of a non-empty cluster.
cluster_mean(cluster) ==
    [sx |-> SeqSum([i \in 1..Len(cluster) |-> package_position(cluster[i])[1]]),
     sy |-> SeqSum([i \in 1..Len(cluster) |-> package_position(cluster[i])[2]]),
     n  |-> Len(cluster)]

\* The centroid update parses the addresses again, outside any try: it raises
\* ValueError when a clustered package has an address float() does not take.
update_raises(clusters) ==
    \E i \in 1..Len(clusters) : \E m \in 1..Len(clusters[i]) :
        clusters[i][m].label_address \notin DOMAIN FloatCoords

\* The rounds of auto_create_routes, from round r on.
RECURSIVE cluster_rounds(_, _, _, _)
cluster_rounds(pool, centroids, clusters, r) ==
    IF r > Rounds THEN [clusters |-> clusters, raised |-> FALSE]
    ELSE LET k == Len(centroids)
             placed == place_packages(sort_by_weight(pool), 1, centroids,
                                      [i \in 1..k |-> <<>>], [i \in 1..k |-> 0])
         IN IF update_raises(placed.clusters)
            THEN [clusters |-> placed.clusters, raised |-> TRUE]
            ELSE cluster_rounds(sort_by_weight(pool),
                                [i \in 1..k |-> IF placed.clusters[i] = <<>> THEN centroids[i]
                                                ELSE cluster_mean(placed.clusters[i])],
                                placed.clusters, r + 1)

\* f"AR{len(self.routes)+1}_{i}"
auto_route_id(n_routes, i) == "AR" \o ToString(n_routes + 1) \o "_" \o ToString(i)

\* The last loop: one route per non-empty cluster, created and optimized in turn.
RECURSIVE materialize(_, _, _, _)
materialize(s, clusters, i, new_routes) ==
    IF i > Len(clusters) THEN [sys |-> s, ret |-> new_routes]
    ELSE IF clusters[i] = <<>> THEN materialize(s, clusters, i + 1, new_routes)
    ELSE LET rid == auto_route_id(Len(s.routes), i - 1)
             ids == [m \in 1..Len(clusters[i]) |-> clusters[i][m].package_id]
             s1  == create_route(s, rid, ids)
             s2  == optimize_route(s1, rid).sys
         IN materialize(s2, clusters, i + 1, Append(new_routes, rid))

\* unassigned = [p for p in self.packages.values() if p.assigned_route_id is None]
unassigned(s) == SelectSeq(s.packages, LAMBDA p : p.assigned_route_id = None)

\* auto_create_routes in which a k below 1 is raised to 1 when there is a package to place.
auto_create_routes_raising_k(s, k0) ==
    LET pool == unassigned(s)
        k == IF pool = <<>> THEN 0
             ELSE IF k0 < 1 THEN 1
             ELSE IF Len(pool) < k0 THEN Len(pool) ELSE k0
    IN IF k < 1 THEN [sys |-> s, ret |-> <<>>, raised |-> FALSE]
       ELSE LET centroids == [i \in 1..k |-> seed_centroid(pool[i])]
                res == cluster_rounds(pool, centroids, <<>>, 1)
            IN IF res.raised THEN [sys |-> s, ret |-> <<>>, raised |-> TRUE]
               ELSE LET m == materialize(s, res.clusters, 1, <<>>)
                    IN [sys |-> m.sys, ret |-> m.ret, raised |-> FALSE]

\* DeliverySystem.auto_create_routes
auto_create_routes(s, k0) ==
    LET pool == unassigned(s)
        k == IF Len(pool) < k0 THEN Len(pool) ELSE k0
    IN IF k < 1 THEN [sys |-> s, ret |-> <<>>, raised |-> FALSE]
       ELSE LET centroids == [i \in 1..k |-> seed_centroid(pool[i])]
                res == cluster_rounds(pool, centroids, <<>>, 1)
            IN IF res.raised THEN [sys |-> s, ret |-> <<>>, raised |-> TRUE]
               ELSE LET m == materialize(s, res.clusters, 1, <<>>)
                    IN [sys |-> m.sys, ret |-> m.ret, raised |-> FALSE]

\* re.match(r"^[A-Z0-9-]{6,20}$", package_id) for the ids of the model: "P1" is too short.
validate_package_id(package_id) == package_id \in {"PKG001", "PKG002", "PKG003", "PKG004"}

\* save_packages: one row per package, in dict order.
save_packages(pk) ==
    [i \in 1..Len(pk) |->
        <<pk[i].package_id, pk[i].label_address, weight_text(pk[i].weight), pk[i].status>>]

\* load_packages on the dict pk: one new package per row, with the status of the
\* row and no route, stored under its id; an id that is already a key keeps its
\* place in the dict and takes the new package.  No file and a file without rows
\* both leave the dict as it is.
RECURSIVE load_packages(_, _)
load_packages(pk0, rows) ==
    IF rows = <<>> THEN pk0
    ELSE LET pk == load_packages(pk0, SubSeq(rows, 1, Len(rows) - 1))
             row == rows[Len(rows)]
             pkg == [SysPackage(row[1], row[2], float_of(row[3])) EXCEPT !.status = row[4]]
             i == KeyIndex(pk, row[1], "package_id")
         IN IF i = 0 THEN Append(pk, pkg) ELSE [pk EXCEPT ![i] = pkg]

\* add_package that lets a valid id that is already stored take the new package.
add_package_overwriting(s, package) ==
    IF validate_package_id(package.package_id)
    THEN LET i == KeyIndex(s.packages, package.package_id, "package_id")
             pk == IF i = 0 THEN Append(s.packages, package)
                   ELSE [s.packages EXCEPT ![i] = package]
         IN [sys |-> [s EXCEPT !.packages = pk, !.file = save_packages(pk)], ret |-> TRUE]
    ELSE [sys |-> s, ret |-> FALSE]

\* DeliverySystem.add_package
add_package(s, package) ==
    IF validate_package_id(package.package_id)
       /\ KeyIndex(s.packages, package.package_id, "package_id") = 0
    THEN LET pk == Append(s.packages, package)
         IN [sys |-> [s EXCEPT !.packages = pk, !.file = save_packages(pk)], ret |-> TRUE]
    ELSE [sys |-> s, ret |-> FALSE]

\* DeliverySystem.update_package_status
update_package_status(s, package_id, new_status) ==
    LET i == KeyIndex(s.packages, package_id, "package_id")
    IN IF i = 0 THEN [sys |-> s, ret |-> FALSE]
       ELSE LET pk == [s.packages EXCEPT ![i].status = new_status]
            IN [sys |-> [s EXCEPT !.packages = pk, !.file = save_packages(pk)], ret |-> TRUE]

\* Package.update_status of models.py on the package stored under package_id, as
\* the driver menu of main.py calls it: the status is set and nothing is saved; an
\* id that is not stored is reported and changes nothing.
package_update_status(s, package_id, new_status) ==
    LET i == KeyIndex(s.packages, package_id, "package_id")
    IN IF i = 0 THEN s ELSE [s EXCEPT !.packages[i].status = new_status]

\* (delivered / total) * 100 in tenths of a percent, rounded to the nearest as
\* the format :.1f does; a tie takes 16 packages or more.
success_rate(delivered, total) == (2000 * delivered + total) \div (2 * total)

\* f"{success_rate:.1f}": the digits of a number of tenths.
format_rate(tenths) == ToString(tenths \div 10) \o "." \o ToString(tenths % 10)

\* sum(r.total_distance for r in self.routes.values()): the legs of all the routes.
RECURSIVE fleet_distance(_)
fleet_distance(rs) ==
    IF rs = <<>> THEN <<>> ELSE Head(rs).total_distance \o fleet_distance(Tail(rs))

\* DeliverySystem.get_analytics_report: the lines of the report, as a record.
get_analytics_report(s) ==
    LET total_packages == Len(s.packages)
        delivered == Cardinality({i \in 1..Len(s.packages) : s.packages[i].status = "Delivered"})
        pending == total_packages - delivered
    IN [total_packages |-> total_packages, delivered |-> delivered, pending |-> pending,
        success_rate |-> IF total_packages > 0
                         THEN format_rate(success_rate(delivered, total_packages)) ELSE "N/A",
        total_distance |-> fleet_distance(s.routes)]

\* A call of get_analytics_report: the system as the call leaves it (no statement
\* of the method assigns to self) and the report returned.
report_call(s) == [sys |-> s, ret |-> get_analytics_report(s)]

\* analytics.generate_report: the lines of the report made from the data it is given.
generate_report(data) ==
    [total_packages |-> data.total_packages, delivered |-> data.delivered_packages,
     pending |-> data.pending_packages,
     success_rate |-> IF data.total_packages > 0
                      THEN format_rate(success_rate(data.delivered_packages,
                                                    data.total_packages))
                      ELSE "N/A",
     total_distance |-> data.total_distance, active_trucks |-> data.active_trucks]

(***************************************************************************)
(* The system of src/system.py as a state machine                          *)
(***************************************************************************)
MaxRoutes == 2
MaxPasses == 1

\* The packages add_package is called with, in any order: three well-formed ids,
\* each with more than one address or weight, and the id "P1", which is too short.
Catalogue ==
    { SysPackage("PKG001", "0,0", 1), SysPackage("PKG001", "1.0,1.0", 1),
      SysPackage("PKG002", "1,1", 1), SysPackage("PKG002", "10, 10", 60),
      SysPackage("PKG003", "100,100", 1), SysPackage("PKG003", "100,100", 60),
      SysPackage("PKG003", "Addr", 5), SysPackage("P1", "1,1", 1) }

\* The four packages of test_auto_create_routes.
ScenarioCPackages ==
    { SysPackage("PKG001", "0,0", 1), SysPackage("PKG002", "1,1", 1),
      SysPackage("PKG003", "100,100", 1), SysPackage("PKG004", "101,101", 1) }

\* The route ids and package id lists create_route and optimize_route are called with.
UserRouteIds == {"R1"}
IdLists == { <<"PKG404">>, <<"PKG002", "PKG001">>, <<"PKG004", "PKG003">> }
Ks == {-1, 0, 1, 2, 5}

\* The route ids optimize_route is called with: a user's, a generated one, an unknown one.
OptimizedIds == UserRouteIds \cup {"AR1_0", "R404"}

\* The packages whose status is updated, and the status they are given.
UpdatedIds == {"PKG001", "PKG404"}
NewStatuses == {"Delivered"}

\* DeliverySystem.__init__ with no data file: empty dicts.
SysEmpty == [packages |-> <<>>, routes |-> <<>>, file |-> <<>>]

SysAddPackage(package) ==
    /\ sys' = add_package(sys, package).sys
    /\ UNCHANGED lvars

SysCreateRoute(route_id, package_ids) ==
    /\ Len(sys.routes) < MaxRoutes
    /\ sys' = create_route(sys, route_id, package_ids)
    /\ UNCHANGED lvars

\* Every pass over a route adds one leg per stop to its total_distance.
Passes(route) == IF route.stops = <<>> THEN 0 ELSE Len(route.total_distance) \div Len(route.stops)

SysOptimizeRoute(route_id) ==
    /\ LET r == KeyIndex(sys.routes, route_id, "route_id")
       IN r # 0 => Passes(sys.routes[r]) < MaxPasses
    /\ sys' = optimize_route(sys, route_id).sys
    /\ UNCHANGED lvars

SysAutoCreateRoutes(k) ==
    /\ Len(sys.routes) < MaxRoutes
    /\ sys' = auto_create_routes(sys, k).sys
    /\ UNCHANGED lvars

SysUpdatePackageStatus(package_id, new_status) ==
    /\ sys' = update_package_status(sys, package_id, new_status).sys
    /\ UNCHANGED lvars

\* The report is built from the dicts and returned: nothing is written.
SysGetAnalyticsReport ==
    /\ get_analytics_report(sys).total_packages = Len(sys.packages)
    /\ UNCHANGED vars

SysUpdateStatus(package_id, new_status) ==
    /\ sys' = package_update_status(sys, package_id, new_status)
    /\ UNCHANGED lvars

\* save_packages called on its own: the file is rewritten from the dict.
SysSavePackages ==
    /\ sys' = [sys EXCEPT !.file = save_packages(sys.packages)]
    /\ UNCHANGED lvars

\* load_packages called on the live object: the rows are read into the dict it
\* holds; the routes stay.
SysLoadPackages ==
    /\ sys' = [sys EXCEPT !.packages = load_packages(sys.packages, sys.file)]
    /\ UNCHANGED lvars

\* A new DeliverySystem on the data file the last one left: __init__ loads it into
\* empty dicts.
SysRelaunch ==
    /\ sys' = [packages |-> load_packages(<<>>, sys.file), routes |-> <<>>, file |-> sys.file]
    /\ UNCHANGED lvars

SysInit ==
    /\ sys = SysEmpty
    /\ packages = <<>> /\ trucks = <<>> /\ drivers = <<>> /\ routes = <<>>
    /\ crashed = FALSE /\ packages_csv = NoFile /\ last = NoCall

\* The public operations of DeliverySystem, each callable at any time, with the
\* packages of catalogue as the arguments of add_package.
\* add_driver, add_manager, login and logout write only the user tables and
\* current_user, which no other operation reads; they are not part of the state.
SysOperations(catalogue) ==
    \/ \E p \in catalogue : SysAddPackage(p)
    \/ \E r \in UserRouteIds, ids \in IdLists : SysCreateRoute(r, ids)
    \/ \E r \in OptimizedIds : SysOptimizeRoute(r)
    \/ \E k \in Ks : SysAutoCreateRoutes(k)
    \/ \E id \in UpdatedIds, st \in NewStatuses : SysUpdatePackageStatus(id, st)
    \/ \E id \in UpdatedIds, st \in NewStatuses : SysUpdateStatus(id, st)
    \/ SysGetAnalyticsReport
    \/ SysSavePackages
    \/ SysLoadPackages
    \/ SysRelaunch

SysNext == SysOperations(Catalogue)

SpecSystem == SysInit /\ [][SysNext]_vars

\* The same system when the packages entered are those of scenario C.
ScenarioCNext == SysOperations(ScenarioCPackages)

SpecScenarioC == SysInit /\ [][ScenarioCNext]_vars

(***************************************************************************)
(* Properties of the layered variant                                       *)
(***************************************************************************)
Returned == last.op = "compute_routes" /\ ~crashed

\* The packages the last run found unassigned on entry.
UnassignedOnEntry == {i \in 1..Len(last.packages) : last.packages[i].assigned_route_id = NoRoute}

OnReturnedRoute(i) ==
    /\ packages[i].assigned_route_id # NoRoute
    /\ RouteIndex(routes, packages[i].assigned_route_id) # 0

\* C1: after any planning run, and after any sequence of runs, every truck
\* carries at most its capacity: current_load <= capacity.
C1_CapacityInvariant ==
    \A t \in 1..Len(trucks) : trucks[t].current_load <= trucks[t].capacity

\* A run has filled a truck to its capacity and turned a package away.
C1_Witness ==
    /\ last.op = "compute_routes"
    /\ \E t \in 1..Len(trucks) :
          trucks[t].current_load = trucks[t].capacity /\ trucks[t].status = "InUse"
    /\ \E i \in UnassignedOnEntry : packages[i].status = "Exception"

\* C2 as stated: after compute_routes returns, for every combination of packages,
\* trucks and drivers, each package that was unassigned on entry is in exactly one
\* of the two conditions: on a returned route, or marked Exception.
C2_CoverageAnyPools ==
    Returned =>
        \A i \in UnassignedOnEntry :
            OnReturnedRoute(i) # (packages[i].status = "Exception")

\* C2 as amended: when there is at least one truck and one driver, after
\* compute_routes returns each package that was unassigned on entry is on a
\* returned route or marked Exception, and one that did not already carry the
\* Exception status on entry is never both.  With no truck or no driver the call
\* returns the empty mapping and leaves every package, truck and driver as it was.
C2_CoverageWithPools ==
    /\ (Returned /\ last.trucks # <<>> /\ last.drivers # <<>>) =>
          \A i \in UnassignedOnEntry :
              /\ OnReturnedRoute(i) \/ packages[i].status = "Exception"
              /\ last.packages[i].status # "Exception" =>
                    ~(OnReturnedRoute(i) /\ packages[i].status = "Exception")
    /\ (Returned /\ (last.trucks = <<>> \/ last.drivers = <<>>)) =>
          /\ routes = <<>>
          /\ packages = last.packages /\ trucks = last.trucks /\ drivers = last.drivers

\* One run with trucks and drivers has assigned one package and turned another away.
C2_Witness ==
    /\ Returned /\ last.trucks # <<>> /\ last.drivers # <<>>
    /\ \E i \in UnassignedOnEntry :
          OnReturnedRoute(i) /\ packages[i].status # "Exception"
    /\ \E i \in UnassignedOnEntry :
          /\ last.packages[i].status # "Exception"
          /\ packages[i].status = "Exception" /\ packages[i].assigned_route_id = NoRoute

\* The Manhattan length of the closed tour depot -> stops[1] -> ... -> stops[n] -> depot.
RECURSIVE TourLength(_, _, _)
TourLength(stops, x, y) ==
    IF stops = <<>> THEN Abs(x) + Abs(y)
    ELSE Abs(x - Head(stops).x) + Abs(y - Head(stops).y)
            + TourLength(Tail(stops), Head(stops).x, Head(stops).y)

\* C3: every route a run returns carries as total_distance the Manhattan length of
\* the closed tour from the depot through its stops, in the produced order, and
\* back to the depot.
C3_TourClosure ==
    Returned =>
        \A r \in 1..Len(routes) :
            routes[r].total_distance = TourLength(routes[r].stops, 0, 0)

\* Scenario B: stops (0,0) and (10,10) on one truck come out in that order with total 40.
C3_Witness ==
    /\ Returned
    /\ \E r \in 1..Len(routes) :
          /\ routes[r].stops = <<Address("depot", 0, 0), Address("east", 10, 10)>>
          /\ routes[r].total_distance = 40

\* C5: each package whose assigned_route_id is r has a route r in the system's
\* route store, and its id appears exactly once in that route's package list.
C5_AssignedPackageOnStoredRoute ==
    \A i \in 1..Len(packages) :
        packages[i].assigned_route_id # NoRoute =>
            LET r == RouteIndex(routes, packages[i].assigned_route_id)
            IN /\ r # 0
               /\ Cardinality({k \in 1..Len(routes[r].package_ids) :
                                  routes[r].package_ids[k] = packages[i].package_id}) = 1

\* C6: every call of DeliverySystem.compute_routes, in any sequence of add package
\* and compute routes operations, completes without an unhandled error.
C6_EveryRunCompletes == ~(crashed /\ last.op = "compute_routes")

\* No truck, as the trucks stand in tl, can take the weight.
FitsNowhere(tl, weight) ==
    \A t \in 1..Len(tl) : tl[t].current_load + weight > tl[t].capacity

\* The loop's state when it reaches a package with the cursors at ti and di.
LoopState(ti, di) ==
    [packages |-> packages, trucks |-> trucks, drivers |-> drivers, routes |-> routes,
     driver_index |-> di, truck_index |-> ti, route_counter |-> Len(routes) + 1,
     KeyError |-> FALSE]

\* C7: when the assignment loop processes a package that no truck can accept, the
\* only change is that package's status becoming Exception: no route is created or
\* extended, no truck and no driver changes.  Stated for one iteration of the loop
\* from every reachable state and cursor position, and for a whole run in which no
\* unassigned package fits anywhere.
C7_FailureChangesOnlyStatus ==
    /\ \A i \in 1..Len(packages), ti \in 0..(Len(trucks) - 1), di \in 0..(Len(drivers) - 1) :
          FitsNowhere(trucks, packages[i].weight) =>
              assign_package(LoopState(ti, di), i)
                 = [LoopState(ti, di) EXCEPT !.packages[i].status = "Exception"]
    /\ (/\ Returned /\ last.trucks # <<>> /\ last.drivers # <<>>
        /\ \A i \in UnassignedOnEntry : FitsNowhere(last.trucks, last.packages[i].weight))
       => /\ trucks = last.trucks
          /\ drivers = last.drivers
          /\ routes = <<>>
          /\ packages = [i \in 1..Len(last.packages) |->
                            IF i \in UnassignedOnEntry
                            THEN [last.packages[i] EXCEPT !.status = "Exception"]
                            ELSE last.packages[i]]

\* Scenario A: two trucks of one capacity, one package heavier than it: the run
\* marks the package and creates no route.
C7_Witness ==
    /\ Returned
    /\ Len(last.trucks) = 2 /\ last.trucks[1].capacity = last.trucks[2].capacity
    /\ Len(packages) = 1
    /\ last.packages[1].status = "InTransit" /\ last.packages[1].weight > last.trucks[1].capacity
    /\ packages[1].status = "Exception" /\ packages[1].assigned_route_id = NoRoute
    /\ routes = <<>> /\ trucks = last.trucks

(***************************************************************************)
(* Properties of src/system.py                                             *)
(***************************************************************************)
Min(a, b) == IF a < b THEN a ELSE b

\* The stored route with this id; the call sites give an id that is stored.
StoredRoute(s, route_id) == s.routes[KeyIndex(s.routes, route_id, "route_id")]

\* C4: when auto_create_routes returns, a package of the unassigned pool that was
\* placed in no cluster carries the status Exception, and every other package of
\* the pool is on one of the routes the call returned.
C4_UnplacedMarkedException ==
    \A k \in Ks :
        LET res == auto_create_routes(sys, k)
        IN (~res.raised /\ Min(k, Len(unassigned(sys))) >= 1) =>
              \A i \in 1..Len(sys.packages) :
                  sys.packages[i].assigned_route_id = None =>
                      IF res.sys.packages[i].assigned_route_id = None
                      THEN res.sys.packages[i].status = "Exception"
                      ELSE res.sys.packages[i].assigned_route_id \in Range(res.ret)

\* The pool of scenario C: addresses and weights of the unassigned packages, in order.
ScenarioC == << <<"0,0", 1>>, <<"1,1", 1>>, <<"100,100", 1>>, <<"101,101", 1>> >>

\* C9: with exactly four unassigned packages of weight 1 entered in the order
\* (0,0), (1,1), (100,100), (101,101), auto_create_routes(2) returns exactly two
\* route ids; one route holds the stops of (0,0) and (1,1), the other those of
\* (100,100) and (101,101); both are in the route store with optimized = TRUE.
C9_ScenarioC ==
    LET pool == unassigned(sys)
    IN [i \in 1..Len(pool) |-> <<pool[i].label_address, pool[i].weight>>] = ScenarioC =>
          LET res == auto_create_routes(sys, 2)
          IN /\ ~res.raised
             /\ Len(res.ret) = 2 /\ res.ret[1] # res.ret[2]
             /\ \A n \in 1..2 :
                   /\ KeyIndex(res.sys.routes, res.ret[n], "route_id") # 0
                   /\ StoredRoute(res.sys, res.ret[n]).optimized
                   /\ Len(StoredRoute(res.sys, res.ret[n]).stops) = 2
             /\ { Range(StoredRoute(res.sys, res.ret[1]).stops),
                  Range(StoredRoute(res.sys, res.ret[2]).stops) }
                   = { {"0,0", "1,1"}, {"100,100", "101,101"} }

\* The state auto_create_routes(2) leaves from scenario C on an empty route store:
\* routes AR1_0 and AR2_1, two stops each, and every package on its route.
C9_Witness ==
    /\ Len(sys.packages) = 4
    /\ [i \in 1..4 |-> <<sys.packages[i].label_address, sys.packages[i].weight>>] = ScenarioC
    /\ [i \in 1..4 |-> sys.packages[i].assigned_route_id] = <<"AR1_0", "AR1_0", "AR2_1", "AR2_1">>
    /\ \A i \in 1..4 : sys.packages[i].status = "In Transit"
    /\ Len(sys.routes) = 2
    /\ sys.routes[1].route_id = "AR1_0" /\ sys.routes[1].stops = <<"0,0", "1,1">>
    /\ sys.routes[2].route_id = "AR2_1" /\ sys.routes[2].stops = <<"100,100", "101,101">>
    /\ sys.routes[1].optimized /\ sys.routes[2].optimized

\* C10: auto_create_routes(k) clamps k to the number n of unassigned packages: it
\* returns at most min(k, n) route ids, and when min(k, n) is below 1 it returns
\* the empty list without raising and leaves packages, routes and file as they were.
C10_ClampedK ==
    \A k \in Ks :
        LET n == Len(unassigned(sys))
            res == auto_create_routes(sys, k)
        IN /\ (Min(k, n) >= 1 /\ ~res.raised) => Len(res.ret) <= Min(k, n)
           /\ Min(k, n) < 1 => (~res.raised /\ res.ret = <<>> /\ res.sys = sys)

\* Scenario D: with two unassigned packages beside an assigned one, k = 5 gives two
\* routes, and k = 0 and k = -1 give none and leave the system as it is.
C10_Witness ==
    /\ Len(unassigned(sys)) = 2 /\ Len(sys.packages) > 2 /\ sys.routes # <<>>
    /\ Len(auto_create_routes(sys, 5).ret) = 2
    /\ auto_create_routes(sys, 5).sys # sys
    /\ auto_create_routes(sys, 0) = [sys |-> sys, ret |-> <<>>, raised |-> FALSE]
    /\ auto_create_routes(sys, -1) = [sys |-> sys, ret |-> <<>>, raised |-> FALSE]

\* C11: optimize_route(route_id) returns False exactly when route_id is not in the
\* route store, and then changes nothing; whenever it returns True the stored route
\* has optimized = TRUE, a route with no stops included.
C11_OptimizeRouteResult ==
    \A route_id \in OptimizedIds :
        LET res == optimize_route(sys, route_id)
            stored == KeyIndex(sys.routes, route_id, "route_id") # 0
        IN /\ res.ret = stored
           /\ ~res.ret => res.sys = sys
           /\ res.ret => StoredRoute(res.sys, route_id).optimized

\* C12: a package whose address is not a parseable coordinate string is never fatal
\* to planning.  create_route does not parse addresses and optimize_route parses
\* them inside a try, so neither has a raising outcome; the statement left to check
\* is that auto_create_routes returns without raising, whatever the stored packages.
C12_MalformedAddressNotFatal ==
    \A k \in Ks : ~auto_create_routes(sys, k).raised

\* The data generate_report is called with: counts that agree and counts that do not.
ReportData ==
    [total_packages : 0..3, delivered_packages : 0..3, pending_packages : 0..3,
     total_distance : {<<>>, <<2>>}, active_trucks : {0, 2}]

Delivered(s) == Cardinality({i \in 1..Len(s.packages) : s.packages[i].status = "Delivered"})

\* The rate printed for delivered of total packages is delivered / total * 100 to
\* the nearest tenth.
RateOf(rate, delivered, total) ==
    \E tenths \in 0..1000 :
       /\ rate = format_rate(tenths)
       /\ LET diff == 10 * tenths * total - 10000 * delivered
          IN -5 * total <= diff /\ diff <= 5 * total

\* What get_analytics_report gives of the system it is called on: the package
\* count, the delivered count, pending = total - delivered, and the success rate,
\* N/A exactly when there is no package.
GetAnalyticsReportCounts ==
    LET report == get_analytics_report(sys)
        total == Len(sys.packages)
    IN /\ report.total_packages = total /\ report.delivered = Delivered(sys)
       /\ report.pending = total - Delivered(sys)
       /\ (report.success_rate = "N/A") <=> (total = 0)
       /\ total > 0 => RateOf(report.success_rate, Delivered(sys), total)

Persisted(pk) == [i \in 1..Len(pk) |-> [pk[i] EXCEPT !.assigned_route_id = None]]

\* C14: add_package returns False and leaves the package map and the persisted rows
\* unchanged when the id is already stored or is not well formed; otherwise it
\* appends the package, persists all packages and returns True.  Hence the stored
\* ids are distinct and well formed and no call replaces a stored package, and a
\* fresh system that loads the rows just saved holds the same ids, addresses,
\* weights and statuses.
C14_AddPackage ==
    /\ \A i, j \in 1..Len(sys.packages) :
          /\ validate_package_id(sys.packages[i].package_id)
          /\ i # j => sys.packages[i].package_id # sys.packages[j].package_id
    /\ \A package \in Catalogue :
          LET res == add_package(sys, package)
              stored == KeyIndex(sys.packages, package.package_id, "package_id") # 0
          IN IF stored \/ ~validate_package_id(package.package_id)
             THEN ~res.ret /\ res.sys = sys
             ELSE /\ res.ret
                  /\ res.sys.packages = Append(sys.packages, package)
                  /\ res.sys.routes = sys.routes
                  /\ load_packages(<<>>, res.sys.file) = Persisted(res.sys.packages)

\* PKG002 is stored and just saved: a second PKG002 and the short id P1 are
\* refused, PKG003 is taken, and the data file gives back what is stored.
C14_Witness ==
    /\ Len(sys.packages) = 2
    /\ sys.packages[2] = SysPackage("PKG002", "1,1", 1)
    /\ sys.file = save_packages(sys.packages)
    /\ load_packages(<<>>, sys.file) = sys.packages
    /\ ~add_package(sys, SysPackage("PKG002", "10, 10", 60)).ret
    /\ ~add_package(sys, SysPackage("P1", "1,1", 1)).ret
    /\ add_package(sys, SysPackage("PKG003", "100,100", 1)).ret
    /\ Len(add_package(sys, SysPackage("PKG003", "100,100", 1)).sys.file) = 3

\* C15: a second compute_routes directly after one that returned, with no change in
\* between, leaves the packages (assignments and statuses), the trucks (loads and
\* bindings), the drivers and the system's stored routes as the first run left them.
C15_SecondRunChangesNothing ==
    Returned =>
        LET res == strategy_compute_routes(packages, trucks, drivers)
        IN /\ ~res.KeyError
           /\ res.packages = packages
           /\ res.trucks = trucks
           /\ res.drivers = drivers
           /\ res.routes = routes

\* The positions of the packages the assignment loop has still to process.
Unprocessed == {i \in 1..Len(packages) : packages[i].assigned_route_id = NoRoute}

\* The cursor positions the loop can be at.
TruckCursors == 0..(Len(trucks) - 1)
DriverCursors == 0..(Len(drivers) - 1)

\* The loop's state after it has processed package i from the cursors ti and di.
AfterPackage(i, ti, di) == assign_package(LoopState(ti, di), i)

\* C16: the vehicle cursor advances after every processed package, whatever the
\* outcome: when the package is put on truck index c the next scan starts at
\* (c + 1) mod |trucks|, and when it is marked Exception after a scan started at c
\* the next scan starts at (c + 1) mod |trucks| as well.
C16_TruckCursorAlwaysAdvances ==
    \A i \in Unprocessed, ti \in TruckCursors, di \in DriverCursors :
        LET st == AfterPackage(i, ti, di)
        IN ~st.KeyError =>
              IF st.packages[i].assigned_route_id = NoRoute
              THEN st.truck_index = (ti + 1) % Len(trucks)
              ELSE \E c \in TruckCursors :
                      /\ st.trucks[c + 1].current_load
                            = trucks[c + 1].current_load + packages[i].weight
                      /\ st.truck_index = (c + 1) % Len(trucks)

\* C17: the driver cursor advances only when a new route is created: a package that
\* opens a route binds it to the driver at the cursor and moves the cursor on by
\* one; a package appended to an existing route, or marked Exception, leaves the
\* cursor where it was.  Hence the j-th route of a run has driver (j - 1) mod |drivers|.
C17_DriverCursorAdvancesOnNewRoute ==
    \A i \in Unprocessed, ti \in TruckCursors, di \in DriverCursors :
        LET st == AfterPackage(i, ti, di)
        IN ~st.KeyError =>
              IF Len(st.routes) = Len(routes) + 1
              THEN /\ st.routes[Len(st.routes)].driver_id = di + 1
                   /\ st.driver_index = (di + 1) % Len(drivers)
              ELSE st.driver_index = di

\* The routes of the last run as its first loop left them, before any was ordered.
RoutesBeforeOrdering ==
    IF last.trucks = <<>> \/ last.drivers = <<>> THEN <<>>
    ELSE assign_loop([packages |-> last.packages, trucks |-> last.trucks,
                      drivers |-> last.drivers, routes |-> <<>>, driver_index |-> 0,
                      truck_index |-> 0, route_counter |-> 1, KeyError |-> FALSE],
                     UnassignedOnEntry, 1).routes

\* s without its k-th element.
Without(s, k) == SubSeq(s, 1, k - 1) \o SubSeq(s, k + 1, Len(s))

\* output visits the stops of remaining, each time the one nearest (Manhattan) to
\* the position (x, y) reached so far and, among the nearest, the first of remaining.
RECURSIVE NearestFirst(_, _, _, _)
NearestFirst(remaining, output, x, y) ==
    IF output = <<>> THEN remaining = <<>>
    ELSE \E k \in 1..Len(remaining) :
            /\ remaining[k] = Head(output)
            /\ \A j \in 1..Len(remaining) :
                  Abs(x - remaining[j].x) + Abs(y - remaining[j].y)
                     >= Abs(x - remaining[k].x) + Abs(y - remaining[k].y)
            /\ \A j \in 1..(k - 1) :
                  Abs(x - remaining[j].x) + Abs(y - remaining[j].y)
                     > Abs(x - remaining[k].x) + Abs(y - remaining[k].y)
            /\ NearestFirst(Without(remaining, k), Tail(output),
                            Head(output).x, Head(output).y)

\* The same for the stops of src/system.py: address strings, at the position
\* optimize_route reads from them, compared by straight-line distance.
RECURSIVE SysNearestFirst(_, _, _)
SysNearestFirst(remaining, output, pos) ==
    IF output = <<>> THEN remaining = <<>>
    ELSE \E k \in 1..Len(remaining) :
            /\ remaining[k] = Head(output)
            /\ \A j \in 1..Len(remaining) :
                  dist2(stop_position(remaining[j]), pos)
                     >= dist2(stop_position(remaining[k]), pos)
            /\ \A j \in 1..(k - 1) :
                  dist2(stop_position(remaining[j]), pos)
                     > dist2(stop_position(remaining[k]), pos)
            /\ SysNearestFirst(Without(remaining, k), Tail(output),
                               stop_position(Head(output)))

\* The stop lists optimize_route is tried on: up to MaxStops addresses, repeats and
\* an unparseable one included.
MaxStops == 3
StopAddresses == {"0,0", "1,1", "10, 10", "100,100", "Addr"}
StopLists == UNION {[1..n -> StopAddresses] : n \in 0..MaxStops}

\* A system whose only route, R1, has these stops and has not been optimized.
WithRoute(stops) ==
    [SysEmpty EXCEPT !.routes = <<[SysRoute("R1") EXCEPT !.stops = stops]>>]

\* Every stop list comes out of optimize_route in nearest-first order.
OptimizeRouteNearestFirst ==
    \A stops \in StopLists :
        SysNearestFirst(stops, optimize_route(WithRoute(stops), "R1").sys.routes[1].stops,
                        <<0, 0>>)

\* The stops the second phase of compute_routes is tried on: the depot, two stops
\* equally far from it (north, east), and three at different distances of which the
\* second nearest to the depot (lane) is the farthest from the nearest (mill); north
\* and east are also equally far from lane.
Mill == Address("mill", 5, 0)
Lane == Address("lane", 0, 6)
Quay == Address("quay", 12, 0)
TourAddresses == {Depot, North, East, Mill, Lane, Quay}

\* The addresses of the packages of a run, in the order the packages were entered:
\* one to MaxStops packages, two at one address included.
TourLists == UNION {[1..n -> TourAddresses] : n \in 1..MaxStops}

\* The packages entered for these addresses, each of weight 1 and scanned, and the
\* state compute_routes starts its first loop in when it is called on them with one
\* seeded truck and one driver.
TourPackages(addresses) ==
    [i \in 1..Len(addresses) |-> scan_package(Package(i, addresses[i], "Created", 1))]

TourEntry(addresses) ==
    [packages |-> TourPackages(addresses), trucks |-> <<Truck(SeededCapacity)>>,
     drivers |-> <<Driver>>, routes |-> <<>>, driver_index |-> 0, truck_index |-> 0,
     route_counter |-> 1, KeyError |-> FALSE]

\* The route of the local mapping when the first loop has ended: every package is
\* on it, and every address once, in the order it was first met.
UnorderedRoute(addresses) ==
    assign_loop(TourEntry(addresses), 1..Len(addresses), 1).routes[1]

\* Every such run returns one route, the one the first loop left, and its stops
\* come out of the second phase in nearest-first order.
SecondPhaseNearestFirst ==
    \A addresses \in TourLists :
        LET entry == TourEntry(addresses)
            returned == strategy_compute_routes(entry.packages, entry.trucks,
                                                entry.drivers).routes
        IN /\ Len(returned) = 1
           /\ returned[1].package_ids = UnorderedRoute(addresses).package_ids
           /\ NearestFirst(UnorderedRoute(addresses).stops, returned[1].stops, 0, 0)

\* C18: both tour sequencers output a permutation of the route's input stops in
\* which every stop is the one nearest to the current position (the depot first,
\* then the stop output before it) among the stops not yet output, the earliest in
\* the input order among equally near ones: for every route a run of the layered
\* strategy returns, against its stops in the order the packages were put on it,
\* for the route of every run on up to MaxStops packages of six addresses, and
\* for DeliverySystem.optimize_route on every stop list.
C18_NearestFirstOrder ==
    /\ Returned =>
          /\ Len(routes) = Len(RoutesBeforeOrdering)
          /\ \A r \in 1..Len(routes) :
                NearestFirst(RoutesBeforeOrdering[r].stops, routes[r].stops, 0, 0)
    /\ SecondPhaseNearestFirst
    /\ OptimizeRouteNearestFirst

\* A run has ordered a route whose stops north and east, entered in that order, are
\* equally far from the depot.  The second phase, given lane, quay, mill, goes to
\* mill (5 from the depot) and from there to quay (7 away) before lane (11 away),
\* although lane is nearer to the depot; given east, north, lane it goes to lane
\* and from there to east before north, both 14 away.  optimize_route puts the
\* unparseable stop, read as the depot, before the equally near "0,0" entered after it.
C18_Witness ==
    /\ Returned
    /\ \E r \in 1..Len(routes) :
          /\ RoutesBeforeOrdering[r].stops = <<Address("north", 0, 20), Address("east", 10, 10)>>
          /\ routes[r].stops = <<Address("north", 0, 20), Address("east", 10, 10)>>
    /\ UnorderedRoute(<<Lane, Quay, Mill>>).stops = <<Lane, Quay, Mill>>
    /\ UnorderedRoute(<<Lane, Quay, Mill>>).package_ids = <<1, 2, 3>>
    /\ optimize(UnorderedRoute(<<Lane, Quay, Mill>>)).stops = <<Mill, Quay, Lane>>
    /\ optimize(UnorderedRoute(<<East, North, Lane>>)).stops = <<Lane, East, North>>
    /\ optimize(UnorderedRoute(<<East, North, East>>)).stops = <<East, North>>
    /\ optimize_route(WithRoute(<<"100,100", "Addr", "0,0">>), "R1").sys.routes[1].stops
          = <<"Addr", "0,0", "100,100">>

\* The squared lengths of the legs of the closed tour from the depot through the
\* stops, in their order, and back to the depot, from position pos on.
RECURSIVE ClosedTourLegs(_, _)
ClosedTourLegs(stops, pos) ==
    IF stops = <<>> THEN <<dist2(<<0, 0>>, pos)>>
    ELSE <<dist2(stop_position(Head(stops)), pos)>>
            \o ClosedTourLegs(Tail(stops), stop_position(Head(stops)))

\* The legs that add to a length: those that are not zero.
Positive(legs) == SelectSeq(legs, LAMBDA d : d > 0)

\* C19: after optimize_route has run on a fresh route (total_distance 0) with at
\* least one stop, its total_distance is the length of the closed tour: the legs
\* from the depot through the stops in the output order, plus the leg from the last
\* stop back to the depot.
C19_ClosedTourLength ==
    \A r \in 1..Len(sys.routes) :
        (sys.routes[r].total_distance = <<>> /\ sys.routes[r].stops # <<>>) =>
            LET after == optimize_route(sys, sys.routes[r].route_id).sys.routes[r]
            IN Positive(after.total_distance) = Positive(ClosedTourLegs(after.stops, <<0, 0>>))

\* C20: optimize_route called again on a route it has already optimized, no stop
\* added in between, leaves the route's stops and its total_distance as the first
\* call left them.
C20_OptimizeRouteIdempotent ==
    \A r \in 1..Len(sys.routes) :
        sys.routes[r].optimized =>
            LET again == optimize_route(sys, sys.routes[r].route_id).sys.routes[r]
            IN /\ again.stops = sys.routes[r].stops
               /\ Positive(again.total_distance) = Positive(sys.routes[r].total_distance)

\* The operations auto_create_routes depends on: it reads the ids, addresses, weights
\* and routes of the packages and the number of stored routes, which add_package,
\* create_route, auto_create_routes itself, load_packages and a relaunch set.
\* optimize_route, update_package_status, Package.update_status, save_packages and
\* the report leave them as they are: they write the statuses, the order and length
\* of a route and the status column of the file, and every row of the file carries
\* the id, address and weight of the package stored under its id.
ClusteringNext ==
    \/ \E p \in Catalogue : SysAddPackage(p)
    \/ \E r \in UserRouteIds, ids \in IdLists : SysCreateRoute(r, ids)
    \/ \E k \in Ks : SysAutoCreateRoutes(k)
    \/ SysLoadPackages
    \/ SysRelaunch

SpecClustering == SysInit /\ [][ClusteringNext]_vars

\* The rounds of auto_create_routes one by one, from round r on: the sorted pool, the
\* centroids the round starts from and the clusters it fills.  The trace ends with
\* the round whose centroid update raises, if there is one.
RECURSIVE round_trace(_, _, _)
round_trace(pool, centroids, r) ==
    IF r > Rounds THEN <<>>
    ELSE LET k == Len(centroids)
             sorted == sort_by_weight(pool)
             placed == place_packages(sorted, 1, centroids,
                                      [i \in 1..k |-> <<>>], [i \in 1..k |-> 0])
             round == [pool |-> sorted, centroids |-> centroids,
                       clusters |-> placed.clusters,
                       cluster_weights |-> placed.cluster_weights]
         IN IF update_raises(placed.clusters) THEN <<round>>
            ELSE <<round>> \o
                 round_trace(sorted,
                             [i \in 1..k |-> IF placed.clusters[i] = <<>> THEN centroids[i]
                                             ELSE cluster_mean(placed.clusters[i])],
                             r + 1)

\* The rounds auto_create_routes(k0) goes through on system s.
rounds_of(s, k0) ==
    LET pool == unassigned(s)
        k == IF Len(pool) < k0 THEN Len(pool) ELSE k0
    IN IF k < 1 THEN <<>>
       ELSE round_trace(pool, [i \in 1..k |-> seed_centroid(pool[i])], 1)

\* The summed weight of a sequence of packages.
WeightOf(pkgs) == SeqSum([m \in 1..Len(pkgs) |-> pkgs[m].weight])

\* The clusters of a round that hold the package with this id.
ClustersOf(round, package_id) ==
    {i \in 1..Len(round.clusters) :
        \E m \in 1..Len(round.clusters[i]) : round.clusters[i][m].package_id = package_id}

\* The weight cluster i carries when the round reaches the n-th package of its pool.
WeightBefore(round, i, n) ==
    WeightOf(SelectSeq(SubSeq(round.pool, 1, n - 1),
                       LAMBDA q : i \in ClustersOf(round, q.package_id)))

\* The clusters that can still take the n-th package of the pool when it is reached.
Feasible(round, n) ==
    {i \in 1..Len(round.clusters) :
        WeightBefore(round, i, n) + round.pool[n].weight <= max_route_weight}

\* One round: no cluster over max_route_weight, every member a package of the pool,
\* no package in two clusters or twice in one, and every package in a feasible
\* cluster with no feasible cluster nearer, or in none when none is feasible.
RoundOK(round) ==
    /\ \A i \in 1..Len(round.clusters) :
          /\ WeightOf(round.clusters[i]) <= max_route_weight
          /\ round.cluster_weights[i] = WeightOf(round.clusters[i])
          /\ Range(round.clusters[i]) \subseteq Range(round.pool)
          /\ \A m, n \in 1..Len(round.clusters[i]) :
                round.clusters[i][m].package_id = round.clusters[i][n].package_id => m = n
    /\ \A n \in 1..Len(round.pool) :
          LET p == round.pool[n]
              placed == ClustersOf(round, p.package_id)
          IN /\ Cardinality(placed) <= 1
             /\ placed = {} <=> Feasible(round, n) = {}
             /\ \A b \in placed :
                   /\ b \in Feasible(round, n)
                   /\ \A j \in Feasible(round, n) :
                         nearer_or_equal(package_position(p), round.centroids[b],
                                         round.centroids[j])

\* The packages of system s that are on route route_id.
OnRoute(s, route_id) == SelectSeq(s.packages, LAMBDA p : p.assigned_route_id = route_id)

\* The non-empty clusters of a round, in order.
NonEmpty(clusters) == SelectSeq(clusters, LAMBDA c : c # <<>>)

\* C21: in every clustering round of auto_create_routes and in the routes it
\* materializes, each cluster's accumulated weight is at most 100, each package of
\* the unassigned pool is in at most one cluster, and a package is placed in the
\* capacity-feasible cluster whose centroid is nearest to it; the returned routes are
\* the non-empty clusters of the last round, so the packages of every returned route
\* weigh at most 100 together and no package is on two returned routes.
C21_ClustersWithinWeight ==
    \A k \in Ks :
        LET trace == rounds_of(sys, k)
            res == auto_create_routes(sys, k)
        IN /\ \A r \in 1..Len(trace) : RoundOK(trace[r])
           /\ (~res.raised /\ trace # <<>>) =>
                 LET final == NonEmpty(trace[Len(trace)].clusters)
                 IN /\ Len(trace) = Rounds
                    /\ Len(res.ret) = Len(final)
                    /\ \A m, n \in 1..Len(res.ret) : res.ret[m] = res.ret[n] => m = n
                    /\ \A n \in 1..Len(res.ret) :
                          LET on == OnRoute(res.sys, res.ret[n])
                          IN /\ KeyIndex(res.sys.routes, res.ret[n], "route_id") # 0
                             /\ WeightOf(on) <= max_route_weight
                             /\ {on[m].package_id : m \in 1..Len(on)}
                                   = {final[n][m].package_id : m \in 1..Len(final[n])}
                             /\ Len(StoredRoute(res.sys, res.ret[n]).stops) = Len(on)

\* The state auto_create_routes(1) leaves from packages of weight 1, 60 and 60: the
\* first 60 and the 1 share AR1_0 and the second 60, which would bring the cluster to
\* 120, stays unassigned.  From packages of these weights auto_create_routes(2) puts
\* the far 60 with the seed at (0,0), the nearer cluster being full for it.
C21_Witness ==
    /\ Len(sys.packages) = 3 /\ Len(sys.routes) = 1
    /\ [i \in 1..3 |-> sys.packages[i].weight] = <<1, 60, 60>>
    /\ [i \in 1..3 |-> sys.packages[i].assigned_route_id] = <<"AR1_0", "AR1_0", None>>
    /\ sys.routes[1].route_id = "AR1_0" /\ Len(sys.routes[1].stops) = 2
    /\ LET before == [sys EXCEPT !.routes = <<>>,
                                 !.packages = [i \in 1..3 |->
                                     [@[i] EXCEPT !.assigned_route_id = None,
                                                  !.status = "Created"]]]
           first == rounds_of(before, 2)[1]
       IN /\ auto_create_routes(before, 1).sys = sys
          /\ ClustersOf(first, "PKG003") = {1}
          /\ Feasible(first, 2) = {1}
          /\ ~nearer_or_equal(package_position(first.pool[2]), first.centroids[1],
                              first.centroids[2])

\* The summed weight of the packages a route lists.
ListedWeight(route) ==
    SeqSum([k \in 1..Len(route.package_ids) |->
               packages[PackageIndex(packages, route.package_ids[k])].weight])

\* C22: after compute_routes returns, the truck of every returned route has status
\* InUse, the route's id as current_route_id and, as current_load, the summed weight
\* of the packages the route lists; every truck that no returned route names is as
\* it was before the run.
C22_TruckMatchesItsRoute ==
    Returned =>
        /\ \A r \in 1..Len(routes) :
              LET truck == trucks[routes[r].truck_id]
              IN /\ truck.status = "InUse"
                 /\ truck.current_route_id = routes[r].route_id
                 /\ truck.current_load = ListedWeight(routes[r])
        /\ \A t \in 1..Len(trucks) :
              (\A r \in 1..Len(routes) : routes[r].truck_id # t) =>
                  trucks[t] = last.trucks[t]

====
